---- MODULE Spec2Model ----
(***************************************************************************)
(* queryf: Format / Print render a positional-placeholder query template   *)
(* and a list of arguments into one debug string.  Text is modelled as a   *)
(* sequence of one-character strings, so that quoting, escaping, the       *)
(* regexp word boundary and the replacement-template expansion of          *)
(* regexp.ReplaceAll are all computed character by character.              *)
(***************************************************************************)
EXTENDS Integers, Sequences, FiniteSets, TLC

VARIABLES fn, query, args, queryb, idx, rendered, pc, result, stack, types

vars == <<fn, query, args, queryb, idx, rendered, pc, result, stack, types>>

-----------------------------------------------------------------------------
(* Bounds of the model. *)

\* longest query template, in characters
MaxLen == 4
\* most arguments passed with a template of the substitution family
MaxArgs == 2
\* most elements of a slice, entries of a map
MaxElems == 2
\* most fields of a struct
MaxFields == 2
\* deepest chain of pointers wrapped around an argument
MaxPtrDepth == 2
\* most cells of the memory a self-referential argument lives in
MaxCells == 2
\* most elements, entries or fields of a cell
MaxKids == 2
\* the nesting of format calls at which the run-time stack limit is hit
MaxStack == 4

-----------------------------------------------------------------------------
(* Characters and text. *)

DigitSeq == <<"0", "1", "2", "3", "4", "5", "6", "7", "8", "9">>

Digits == {DigitSeq[k] : k \in 1..10}

Letters ==
  {"a", "b", "c", "d", "e", "f", "g", "h", "i", "j", "k", "l", "m", "n", "o",
   "p", "q", "r", "s", "t", "u", "v", "w", "x", "y", "z",
   "A", "B", "C", "D", "E", "F", "G", "H", "I", "J", "K", "L", "M", "N", "O",
   "P", "Q", "R", "S", "T", "U", "V", "W", "X", "Y", "Z"}

HexSeq == <<"0", "1", "2", "3", "4", "5", "6", "7", "8", "9", "a", "b", "c", "d", "e", "f">>

IsDigit(c) == c \in Digits

\* the class \w of the regexp package, also the name class of Expand
IsWord(c) == c \in Digits \cup Letters \cup {"_"}

DigitVal(c) == (CHOOSE k \in 1..10 : DigitSeq[k] = c) - 1

RECURSIVE Itoa(_)
Itoa(n) == IF n < 10 THEN <<DigitSeq[n + 1]>>
           ELSE Itoa(n \div 10) \o <<DigitSeq[(n % 10) + 1]>>

Drop(s, k) == SubSeq(s, k + 1, Len(s))

HasPrefix(s, p) == Len(s) >= Len(p) /\ SubSeq(s, 1, Len(p)) = p

HasSuffix(s, p) == Len(s) >= Len(p) /\ SubSeq(s, Len(s) - Len(p) + 1, Len(s)) = p

\* strings.ReplaceAll(s, old, new) for a one-character old
RECURSIVE ReplaceChar(_, _, _)
ReplaceChar(s, old, new) ==
  IF s = <<>> THEN <<>>
  ELSE (IF Head(s) = old THEN new ELSE <<Head(s)>>) \o ReplaceChar(Tail(s), old, new)

\* strings.Join(parts, sep)
RECURSIVE Join(_, _)
Join(parts, sep) ==
  IF parts = <<>> THEN <<>>
  ELSE IF Len(parts) = 1 THEN parts[1]
  ELSE parts[1] \o sep \o Join(Tail(parts), sep)

\* strings.Split(s, sep) for a one-character sep
RECURSIVE SplitFrom(_, _, _)
SplitFrom(s, sep, cur) ==
  IF s = <<>> THEN <<cur>>
  ELSE IF Head(s) = sep THEN <<cur>> \o SplitFrom(Tail(s), sep, <<>>)
  ELSE SplitFrom(Tail(s), sep, Append(cur, Head(s)))

Split(s, sep) == SplitFrom(s, sep, <<>>)

-----------------------------------------------------------------------------
(* regexp: the pattern \$<index>\b and ReplaceAll with its template        *)
(* expansion.                                                              *)

\* fmt.Sprintf(`\$%d\b`, index): the literal part of the pattern
Pattern(index) == <<"$">> \o Itoa(index)

\* the pattern without its \b
WordBoundaryDropped(src, q) == TRUE

\* \b at the gap before position q of src

WordBoundary(src, q) ==
  LET before == q > 1 /\ q - 1 <= Len(src) /\ IsWord(src[q - 1])
      after == q <= Len(src) /\ IsWord(src[q])
  IN before # after

\* the pattern matches src at position p
MatchAt(src, p, index) ==
  LET pat == Pattern(index)
  IN /\ p + Len(pat) - 1 <= Len(src)
     /\ SubSeq(src, p, p + Len(pat) - 1) = pat
     /\ WordBoundary(src, p + Len(pat))

\* regexp.extract: the variable name after a "$" of a replacement template
\* [ok, name, num, rest]
NameEnd(str) ==
  IF \E k \in 1..Len(str) : ~IsWord(str[k])
  THEN (CHOOSE k \in 1..Len(str) : ~IsWord(str[k]) /\ \A j \in 1..(k - 1) : IsWord(str[j])) - 1
  ELSE Len(str)

RECURSIVE ParseNum(_, _)
ParseNum(name, num) ==
  IF name = <<>> THEN num
  ELSE IF ~IsDigit(Head(name)) \/ num >= 100000000 THEN -1
  ELSE ParseNum(Tail(name), num * 10 + DigitVal(Head(name)))

Extract(str0) ==
  LET bad == [ok |-> FALSE, num |-> 0, rest |-> <<>>]
      brace == str0 # <<>> /\ Head(str0) = "{"
      str == IF brace THEN Tail(str0) ELSE str0
      i == NameEnd(str)
      name == SubSeq(str, 1, i)
      n0 == ParseNum(name, 0)
      num == IF name[1] = "0" /\ Len(name) > 1 THEN -1 ELSE n0
  IN IF str0 = <<>> THEN bad
     ELSE IF i = 0 THEN bad
     ELSE IF brace /\ (i >= Len(str) \/ str[i + 1] # "}") THEN bad
     ELSE [ok |-> TRUE, num |-> num, rest |-> Drop(str, IF brace THEN i + 1 ELSE i)]

\* regexp.expand: the pattern has no capture group, so $0 / ${0} is the whole
\* match and every other variable is empty
RECURSIVE Expand(_, _)
Expand(template, match) ==
  IF template = <<>> THEN <<>>
  ELSE IF Head(template) # "$" THEN <<Head(template)>> \o Expand(Tail(template), match)
  ELSE LET after == Tail(template)
           x == Extract(after)
       IN IF after # <<>> /\ Head(after) = "$"
          THEN <<"$">> \o Expand(Tail(after), match)
          ELSE IF ~x.ok THEN <<"$">> \o Expand(after, match)
          ELSE (IF x.num = 0 THEN match ELSE <<>>) \o Expand(x.rest, match)

\* regexp.ReplaceAll(src, repl) for the pattern of index, scanning from p
RECURSIVE ReplaceFrom(_, _, _, _)
ReplaceFrom(src, p, index, repl) ==
  IF p > Len(src) THEN <<>>
  ELSE IF MatchAt(src, p, index)
       THEN Expand(repl, Pattern(index))
            \o ReplaceFrom(src, p + Len(Pattern(index)), index, repl)
       ELSE <<src[p]>> \o ReplaceFrom(src, p + 1, index, repl)

ReplaceAll(src, index, repl) == ReplaceFrom(src, 1, index, repl)

\* the loop of Format over already rendered arguments, from the k-th on
RECURSIVE FormatLoop(_, _, _)
FormatLoop(q, texts, k) ==
  IF k > Len(texts) THEN q
  ELSE FormatLoop(ReplaceAll(q, k, texts[k]), texts, k + 1)

-----------------------------------------------------------------------------
(* Argument values: a record per Go dynamic type, t naming the type.       *)

IntTypes == {"int", "uint8", "int16", "int32", "int64"}

NullTypes ==
  {"sql.NullBool", "sql.NullByte", "sql.NullFloat64", "sql.NullInt16",
   "sql.NullInt32", "sql.NullInt64", "sql.NullString", "sql.NullTime",
   "pq.NullTime"}

NilV == [t |-> "nil"]
IntV(ty, n) == [t |-> ty, n |-> n]
StrV(s) == [t |-> "string", s |-> s]
\* a value of a user-defined type whose underlying type is string
NamedStrV(s) == [t |-> "MyString", s |-> s]
BoolV(b) == [t |-> "bool", b |-> b]
\* a float64 holding tenths/10
FloatV(tenths) == [t |-> "float64", tenths |-> tenths]
\* time.Date(2023, 1, 1, 0, 0, sec, 0, time.UTC)
TimeV(sec) == [t |-> "time.Time", sec |-> sec]
BytesV(b) == [t |-> "[]byte", bytes |-> b]
\* a nil pointer of type *pointee
NilPtrV(pointee) == [t |-> "nilptr", pointee |-> pointee]
\* a non-nil pointer; elem is rv.Elem().Interface()
PtrV(elem) == [t |-> "ptr", elem |-> elem]
\* a slice of element type et
SliceV(et, elems) == [t |-> "slice", et |-> et, elems |-> elems]
\* one of pq.BoolArray .. pq.StringArray; val is what its Value() returns
PqArrayV(val) == [t |-> "pq.Array", val |-> val]
GenericArrayV(val) == [t |-> "pq.GenericArray", val |-> val]
\* what a driver.Valuer returns: (str, nil), (nil, nil) or (nil, err)
ValuerStr(str) == [err |-> FALSE, isnil |-> FALSE, str |-> str]
ValuerNil == [err |-> FALSE, isnil |-> TRUE, str |-> <<>>]
ValuerErr == [err |-> TRUE, isnil |-> TRUE, str |-> <<>>]
NullV(ty, valid, inner) == [t |-> ty, valid |-> valid, inner |-> inner]
\* entries in the order rv.MapKeys() yields the keys
MapV(entries) == [t |-> "map", entries |-> entries]
Entry(key, val) == [key |-> key, val |-> val]
StructV(fields) == [t |-> "struct", fields |-> fields]
\* a struct field: exported is PkgPath == "", tag the json tag when hasTag
Field(name, exported, hasTag, tag, val) ==
  [name |-> name, exported |-> exported, hasTag |-> hasTag, tag |-> tag, val |-> val]
\* a value of a user-defined integer type whose String() returns text
StringerV(text) == [t |-> "Stringer", text |-> text]
\* a reflect.Value holding of (Print passes one to its own format)
ReflectValueV(of) == [t |-> "reflect.Value", of |-> of]

\* reflect.Kind of the value
Kind(a) ==
  CASE a.t = "nil" -> "invalid"
    [] a.t \in {"ptr", "nilptr"} -> "ptr"
    [] a.t \in {"string", "MyString"} -> "string"
    [] a.t = "bool" -> "bool"
    [] a.t = "float64" -> "float64"
    [] a.t \in IntTypes \cup {"Stringer"} -> "int"
    [] a.t \in {"[]byte", "slice", "pq.Array"} -> "slice"
    [] a.t = "map" -> "map"
    [] a.t \in {"time.Time", "pq.GenericArray", "struct", "reflect.Value"} \cup NullTypes -> "struct"

-----------------------------------------------------------------------------
(* fmt and time.                                                           *)

NULL == <<"N", "U", "L", "L">>

NilAngle == <<"<", "n", "i", "l", ">">>

\* the address a non-nil pointer prints as: it differs from run to run, and
\* one representative stands for it
PointerText == <<"0", "x", "c", "0", "0", "0", "0", "1", "2", "0", "a", "8">>

Pad2(n) == IF n < 10 THEN <<"0">> \o Itoa(n) ELSE Itoa(n)

\* t.Format(time.RFC3339)
RFC3339(sec) ==
  <<"2", "0", "2", "3", "-", "0", "1", "-", "0", "1", "T", "0", "0", ":", "0", "0", ":">>
  \o Pad2(sec) \o <<"Z">>

\* t.String()
TimeString(sec) ==
  <<"2", "0", "2", "3", "-", "0", "1", "-", "0", "1", " ", "0", "0", ":", "0", "0", ":">>
  \o Pad2(sec) \o <<" ", "+", "0", "0", "0", "0", " ", "U", "T", "C">>

\* fmt.Sprintf("%g", f)
FormatG(tenths) ==
  Itoa(tenths \div 10)
  \o (IF tenths % 10 = 0 THEN <<>> ELSE <<".">> \o Itoa(tenths % 10))

\* fmt.Sprintf("%x", b)
RECURSIVE Hex(_)
Hex(b) ==
  IF b = <<>> THEN <<>>
  ELSE <<HexSeq[(Head(b) \div 16) + 1], HexSeq[(Head(b) % 16) + 1]>> \o Hex(Tail(b))

\* fmt.Sprintf("%v", v) for the values that reach it; a reflect.Value prints
\* as the value it holds
RECURSIVE SprintV(_)
SprintV(a) ==
  CASE a.t = "reflect.Value" -> SprintV(a.of)
    [] a.t \in IntTypes -> Itoa(a.n)
    [] a.t = "Stringer" -> a.text
    [] a.t \in {"string", "MyString"} -> a.s
    [] a.t = "bool" -> IF a.b THEN <<"t", "r", "u", "e">> ELSE <<"f", "a", "l", "s", "e">>
    [] a.t = "float64" -> FormatG(a.tenths)
    [] a.t = "time.Time" -> TimeString(a.sec)
    [] a.t \in {"nil", "nilptr"} -> NilAngle
    [] a.t = "ptr" /\ Kind(a.elem) \notin {"slice", "struct", "map"} -> PointerText

-----------------------------------------------------------------------------
(* queryf.go: the category predicates of Argument.                         *)

IsNil(a) == a.t \in {"nil", "nilptr"}

isNull(a) == a.t = "nil" \/ (Kind(a) = "ptr" /\ IsNil(a))

isPtr(a) == Kind(a) = "ptr" /\ ~IsNil(a)

isTime(a) == a.t = "time.Time"

isString(a) == Kind(a) = "string"

isBoolean(a) == Kind(a) = "bool"

isFloat(a) == Kind(a) \in {"float32", "float64"}

isBytes(a) == a.t = "[]byte"

isPqArray(a) == a.t = "pq.Array"

isSlice(a) == Kind(a) = "slice" /\ ~isBytes(a) /\ ~isPqArray(a)

isMap(a) == Kind(a) = "map"

isGenericArray(a) == a.t = "pq.GenericArray"

isSqlNullType(a) == a.t \in NullTypes

isStruct(a) == Kind(a) = "struct" /\ ~isTime(a) /\ ~isSqlNullType(a)

-----------------------------------------------------------------------------
(* queryf.go: the renderers of Argument.                                   *)

Quote == "'"

DQuote == "\""

formatNull == NULL

formatTime(a) == <<Quote>> \o RFC3339(a.sec) \o <<Quote>>

\* s, _ := arg.(string): the assertion fails for every type but string
\* itself and leaves s empty
formatString(a) ==
  LET s == IF a.t = "string" THEN a.s ELSE <<>>
  IN <<Quote>> \o ReplaceChar(s, Quote, <<Quote, Quote>>) \o <<Quote>>

formatBytes(a) == <<Quote, "\\", "x">> \o Hex(a.bytes) \o <<Quote>>

formatBoolean(a) ==
  LET b == a.t = "bool" /\ a.b
  IN IF b THEN <<"t", "r", "u", "e">> ELSE <<"f", "a", "l", "s", "e">>

formatFloat(a) == IF a.t = "float64" THEN FormatG(a.tenths) ELSE SprintV(a)

\* the quoting of what the Valuer returned, shared by both array renderers
quoteValuer(val) ==
  IF val.err \/ val.isnil THEN NULL
  ELSE IF ~HasPrefix(val.str, <<Quote>>) THEN <<Quote>> \o val.str \o <<Quote>>
  ELSE val.str

formatGenericArray(a) == quoteValuer(a.val)

formatPqArray(a) == quoteValuer(a.val)

\* sql.NullString printed with %v instead of formatString
formatSqlNullTypeRawString(a) ==
  CASE a.t = "sql.NullBool" -> IF ~a.valid THEN NULL ELSE formatBoolean(a.inner)
    [] a.t \in {"sql.NullByte", "sql.NullInt16", "sql.NullInt32", "sql.NullInt64"} ->
         IF ~a.valid THEN NULL ELSE Itoa(a.inner.n)
    [] a.t = "sql.NullFloat64" -> IF ~a.valid THEN NULL ELSE formatFloat(a.inner)
    [] a.t = "sql.NullString" -> IF ~a.valid THEN NULL ELSE SprintV(a.inner)
    [] a.t \in {"sql.NullTime", "pq.NullTime"} -> IF ~a.valid THEN NULL ELSE formatTime(a.inner)

formatSqlNullType(a) ==
  CASE a.t = "sql.NullBool" -> IF ~a.valid THEN NULL ELSE formatBoolean(a.inner)
    [] a.t \in {"sql.NullByte", "sql.NullInt16", "sql.NullInt32", "sql.NullInt64"} ->
         IF ~a.valid THEN NULL ELSE Itoa(a.inner.n)
    [] a.t = "sql.NullFloat64" -> IF ~a.valid THEN NULL ELSE formatFloat(a.inner)
    [] a.t = "sql.NullString" -> IF ~a.valid THEN NULL ELSE formatString(a.inner)
    [] a.t \in {"sql.NullTime", "pq.NullTime"} -> IF ~a.valid THEN NULL ELSE formatTime(a.inner)

\* the test of formatMap and formatStruct for an already quoted value
isQuoted(v) == HasPrefix(v, <<Quote>>) /\ HasSuffix(v, <<Quote>>)

\* v[1 : len(v)-1] is out of range when v is the one character '
slicePanics(v) == isQuoted(v) /\ 1 > Len(v) - 1

\* one "key":value pair of formatMap and formatStruct
pairText(k, v) ==
  IF isQuoted(v)
  THEN LET innerValue == ReplaceChar(SubSeq(v, 2, Len(v) - 1), DQuote, <<"\\", DQuote>>)
       IN <<DQuote>> \o k \o <<DQuote, ":", DQuote>> \o innerValue \o <<DQuote>>
  ELSE <<DQuote>> \o k \o <<DQuote, ":">> \o v

\* the key formatStruct gives a field
fieldKey(f) ==
  LET parts == Split(f.tag, ",")
  IN IF f.hasTag /\ parts[1] # <<>> /\ parts[1] # <<"-">> THEN parts[1] ELSE f.name

RECURSIVE format(_)

\* unwraps a single level: what is still a pointer prints as an address
formatPtrOneLevel(a) == IF isPtr(a.elem) THEN PointerText ELSE format(a.elem)

formatPtr(a) == format(a.elem)

\* the braces without the quotes around them, as sliceToString has it
formatSliceBare(a) ==
  <<"{">> \o Join([k \in 1..Len(a.elems) |-> format(a.elems[k])], <<",">>) \o <<"}">>

formatSlice(a) ==
  <<Quote, "{">>
  \o Join([k \in 1..Len(a.elems) |-> format(a.elems[k])], <<",">>)
  \o <<"}", Quote>>

formatMap(a) ==
  <<Quote, "{">>
  \o Join([k \in 1..Len(a.entries) |->
             pairText(a.entries[k].key, format(a.entries[k].val))], <<",">>)
  \o <<"}", Quote>>

formatStruct(a) ==
  LET shown == SelectSeq(a.fields, LAMBDA f : f.exported)
  IN <<Quote, "{">>
     \o Join([k \in 1..Len(shown) |-> pairText(fieldKey(shown[k]), format(shown[k].val))],
             <<",">>)
     \o <<"}", Quote>>

format(a) ==
  IF isNull(a) THEN formatNull
  ELSE IF isPtr(a) THEN formatPtr(a)
  ELSE IF isTime(a) THEN formatTime(a)
  ELSE IF isString(a) THEN formatString(a)
  ELSE IF isBytes(a) THEN formatBytes(a)
  ELSE IF isSlice(a) THEN formatSlice(a)
  ELSE IF isPqArray(a) THEN formatPqArray(a)
  ELSE IF isGenericArray(a) THEN formatGenericArray(a)
  ELSE IF isSqlNullType(a) THEN formatSqlNullType(a)
  ELSE IF isBoolean(a) THEN formatBoolean(a)
  ELSE IF isMap(a) THEN formatMap(a)
  ELSE IF isStruct(a) THEN formatStruct(a)
  ELSE IF isFloat(a) THEN formatFloat(a)
  ELSE SprintV(a)

\* format(a) panics: the slice expression of formatMap / formatStruct is
\* reached with a value rendered as the single character '
RECURSIVE formatPanics(_)
formatPanics(a) ==
  IF isNull(a) THEN FALSE
  ELSE IF isPtr(a) THEN formatPanics(a.elem)
  ELSE IF isTime(a) \/ isString(a) \/ isBytes(a) THEN FALSE
  ELSE IF isSlice(a) THEN \E k \in 1..Len(a.elems) : formatPanics(a.elems[k])
  ELSE IF isPqArray(a) \/ isGenericArray(a) \/ isSqlNullType(a) \/ isBoolean(a) THEN FALSE
  ELSE IF isMap(a)
       THEN \E k \in 1..Len(a.entries) :
              \/ formatPanics(a.entries[k].val)
              \/ slicePanics(format(a.entries[k].val))
  ELSE IF isStruct(a)
       THEN \E k \in 1..Len(a.fields) :
              /\ a.fields[k].exported
              /\ \/ formatPanics(a.fields[k].val)
                 \/ slicePanics(format(a.fields[k].val))
  ELSE FALSE

-----------------------------------------------------------------------------
(* queryf.go: ParameterType and GetType.                                   *)

String == "string"
Integer == "integer"
Float == "float"
Boolean == "boolean"
Pointer == "pointer"
Null == "null"
Time == "time"
Slice == "slice"
GenericArray == "generic_array"
PqArray == "pq_array"
SqlNullType == "sql_null_type"
Bytes == "bytes"
Map == "map"
Struct == "struct"

ParameterType ==
  {String, Integer, Float, Boolean, Pointer, Null, Time, Slice, GenericArray,
   PqArray, SqlNullType, Bytes, Map, Struct}

\* GetType with the struct test moved ahead of the pq.GenericArray test
GetTypeStructFirst(a) ==
  IF isNull(a) THEN Null
  ELSE IF isPtr(a) THEN Pointer
  ELSE IF isTime(a) THEN Time
  ELSE IF isString(a) THEN String
  ELSE IF isSlice(a) THEN Slice
  ELSE IF isBytes(a) THEN Bytes
  ELSE IF isPqArray(a) THEN PqArray
  ELSE IF isStruct(a) THEN Struct
  ELSE IF isGenericArray(a) THEN GenericArray
  ELSE IF isSqlNullType(a) THEN SqlNullType
  ELSE IF isBoolean(a) THEN Boolean
  ELSE IF isFloat(a) THEN Float
  ELSE IF isMap(a) THEN Map
  ELSE Integer

GetType(a) ==
  IF isNull(a) THEN Null
  ELSE IF isPtr(a) THEN Pointer
  ELSE IF isTime(a) THEN Time
  ELSE IF isString(a) THEN String
  ELSE IF isSlice(a) THEN Slice
  ELSE IF isBytes(a) THEN Bytes
  ELSE IF isPqArray(a) THEN PqArray
  ELSE IF isGenericArray(a) THEN GenericArray
  ELSE IF isSqlNullType(a) THEN SqlNullType
  ELSE IF isBoolean(a) THEN Boolean
  ELSE IF isFloat(a) THEN Float
  ELSE IF isMap(a) THEN Map
  ELSE IF isStruct(a) THEN Struct
  ELSE Integer

\* the branch of format that a value takes, named by the category whose
\* renderer the branch calls; the final return is the integer rendering
formatBranch(a) ==
  IF isNull(a) THEN Null
  ELSE IF isPtr(a) THEN Pointer
  ELSE IF isTime(a) THEN Time
  ELSE IF isString(a) THEN String
  ELSE IF isBytes(a) THEN Bytes
  ELSE IF isSlice(a) THEN Slice
  ELSE IF isPqArray(a) THEN PqArray
  ELSE IF isGenericArray(a) THEN GenericArray
  ELSE IF isSqlNullType(a) THEN SqlNullType
  ELSE IF isBoolean(a) THEN Boolean
  ELSE IF isMap(a) THEN Map
  ELSE IF isStruct(a) THEN Struct
  ELSE IF isFloat(a) THEN Float
  ELSE Integer

-----------------------------------------------------------------------------
(* The earlier renderer behind Print (package-level functions of the same  *)
(* names; the p_ prefix tells them from the methods of Argument).          *)

p_isNull(a) == a.t = "nil" \/ (Kind(a) = "ptr" /\ IsNil(a))

p_isPtr(a) == Kind(a) = "ptr"

p_isTime(a) == a.t = "time.Time"

p_isString(a) == Kind(a) = "string"

p_isBoolean(a) == Kind(a) = "bool"

p_isSlice(a) == Kind(a) = "slice"

\* arg.([]any) without the ok form panics for every other slice type
assertAnySlicePanics(a) == ~(a.t = "slice" /\ a.et = "any")

RECURSIVE p_format(_)

sliceToString(a) ==
  <<"{">> \o Join([k \in 1..Len(a.elems) |-> p_format(a.elems[k])], <<",">>) \o <<"}">>

p_format(a) ==
  IF p_isNull(a) THEN NULL
  ELSE IF p_isPtr(a) THEN p_format(ReflectValueV(a.elem))
  ELSE IF p_isTime(a) THEN p_format(StrV(RFC3339(a.sec)))
  ELSE IF p_isString(a)
       THEN <<Quote>> \o (IF a.t = "string" THEN a.s ELSE <<>>) \o <<Quote>>
  ELSE IF p_isSlice(a) THEN sliceToString(a)
  ELSE IF p_isBoolean(a)
       THEN (IF a.t = "bool" /\ a.b THEN <<"t", "r", "u", "e">>
             ELSE <<"f", "a", "l", "s", "e">>)
  ELSE SprintV(a)

RECURSIVE p_formatPanics(_)
p_formatPanics(a) ==
  IF p_isNull(a) THEN FALSE
  ELSE IF p_isPtr(a) THEN p_formatPanics(ReflectValueV(a.elem))
  ELSE IF p_isTime(a) \/ p_isString(a) THEN FALSE
  ELSE IF p_isSlice(a)
       THEN (IF assertAnySlicePanics(a) THEN TRUE
             ELSE \E k \in 1..Len(a.elems) : p_formatPanics(a.elems[k]))
  ELSE FALSE

-----------------------------------------------------------------------------
(* The inputs the model is run on.                                         *)

\* sequences over S of length at most n
SeqsUpTo(S, n) == UNION {[1..k -> S] : k \in 0..n}

\* v under at most n non-nil pointers
RECURSIVE PtrClosure(_, _)
PtrClosure(S, n) == IF n = 0 THEN S ELSE S \cup {PtrV(v) : v \in PtrClosure(S, n - 1)}

TemplateAlphabet == {"$", "1", "2", "a", ","}

Templates == SeqsUpTo(TemplateAlphabet, MaxLen)

\* arguments of the substitution family: their rendered texts are a digit,
\* a quoted text holding "$0", and a bare "$"
SubstArgs == {IntV("int", 2), StrV(<<"$", "0">>), StringerV(<<"$">>)}

Strs == {<<"a">>, <<Quote>>, <<"a", Quote, "b">>, <<DQuote>>, <<"$", "b">>, <<>>}

Scalars ==
  {NilV, IntV("int", 42), FloatV(425), FloatV(30), TimeV(0), TimeV(59),
   BoolV(TRUE), BoolV(FALSE), BytesV(<<1, 171>>), BytesV(<<>>),
   NilPtrV("int"), NilPtrV("string"), NilPtrV("struct"),
   StringerV(<<Quote>>), StringerV(<<"x">>),
   PqArrayV(ValuerStr(<<"{", "1", ",", "2", "}">>)), PqArrayV(ValuerNil), PqArrayV(ValuerErr),
   GenericArrayV(ValuerStr(<<"{", "1", "}">>)), GenericArrayV(ValuerNil),
   GenericArrayV(ValuerErr)}
  \cup {StrV(s) : s \in Strs}
  \cup {NamedStrV(s) : s \in {<<"a">>, <<>>}}
  \cup {NullV("sql.NullBool", v, BoolV(b)) : v, b \in BOOLEAN}
  \cup {NullV(ty[1], v, IntV(ty[2], 42)) : v \in BOOLEAN,
          ty \in {<<"sql.NullByte", "uint8">>, <<"sql.NullInt16", "int16">>,
                  <<"sql.NullInt32", "int32">>, <<"sql.NullInt64", "int64">>}}
  \cup {NullV("sql.NullFloat64", v, FloatV(425)) : v \in BOOLEAN}
  \cup {NullV("sql.NullString", v, StrV(s)) : v \in BOOLEAN, s \in {<<"a", Quote>>, <<>>}}
  \cup {NullV(ty, v, TimeV(0)) : v \in BOOLEAN, ty \in {"sql.NullTime", "pq.NullTime"}}

\* what the slices and maps of the model hold
Elems ==
  {NilV, IntV("int", 7), StrV(<<"a", Quote>>), NilPtrV("int"), PtrV(IntV("int", 7)),
   StringerV(<<Quote>>), SliceV("int", <<IntV("int", 7)>>)}

\* what the struct fields of the model hold
FieldVals == {IntV("int", 7), StrV(<<"a", DQuote>>), StringerV(<<Quote>>)}

Tags == {<<"n">>, <<"-">>, <<",", "o">>}

Slices == {SliceV("any", es) : es \in SeqsUpTo(Elems, MaxElems)}

\* the key of the k-th map entry
KeyText(k) == <<"k">> \o Itoa(k)

\* maps of up to MaxElems entries, in every order MapKeys can yield
Maps ==
  {MapV([k \in 1..Len(vs) |-> Entry(KeyText(ord[k]), vs[k])]) :
     <<vs, ord>> \in {x \in SeqsUpTo(Elems, MaxElems) \X SeqsUpTo(1..MaxElems, MaxElems) :
                      /\ Len(x[1]) = Len(x[2])
                      /\ {x[2][k] : k \in 1..Len(x[2])} = 1..Len(x[2])}}

\* the fields a struct may declare at position k: exported ones, untagged or
\* tagged, and unexported ones
FieldsAt(k) ==
  {Field(<<"F">> \o Itoa(k), TRUE, FALSE, <<>>, v) : v \in FieldVals}
  \cup {Field(<<"F">> \o Itoa(k), TRUE, TRUE, tag, v) : tag \in Tags, v \in FieldVals}
  \cup {Field(<<"f">> \o Itoa(k), FALSE, FALSE, <<>>, IntV("int", 7)),
        Field(<<"f">> \o Itoa(k), FALSE, TRUE, <<"n">>, StringerV(<<Quote>>))}

\* the field lists of exactly n fields
RECURSIVE FieldLists(_)
FieldLists(n) ==
  IF n = 0 THEN {<<>>}
  ELSE {Append(fs, f) : fs \in FieldLists(n - 1), f \in FieldsAt(n)}

Structs == {StructV(fs) : fs \in UNION {FieldLists(n) : n \in 0..MaxFields}}

RenderArgs == PtrClosure(Scalars \cup Slices \cup Maps \cup Structs, MaxPtrDepth)

PrintArgs ==
  PtrClosure({NilV, IntV("int", 5), StrV(<<"a">>), NamedStrV(<<"a">>), BoolV(TRUE),
              NilPtrV("int64"), StringerV(<<"x">>), FloatV(425)}, MaxPtrDepth)
  \cup {TimeV(0), BytesV(<<1>>), SliceV("int", <<IntV("int", 1)>>)}
  \cup {SliceV("any", es) : es \in SeqsUpTo({NilV, IntV("int", 5), StrV(<<"a">>)}, MaxElems)}

OneArgTemplates == {<<"$", "1">>, <<"(", "$", "1", ")", "$", "1">>}

RenderTemplate == <<"$", "1">>

-----------------------------------------------------------------------------
(* Format and Print as state machines: one step per iteration of the loop  *)
(* over args.                                                              *)

Start(f, q, as) ==
  /\ fn = f
  /\ query = q
  /\ args = as
  /\ queryb = q
  /\ idx = 0
  /\ rendered = <<>>
  /\ pc = "loop"
  /\ result = <<>>
  /\ stack = <<>>
  /\ types = <<>>

InitSubst == \E q \in Templates, as \in SeqsUpTo(SubstArgs, MaxArgs) : Start("Format", q, as)

InitRender == \E v \in RenderArgs : Start("Format", RenderTemplate, <<v>>)

InitPrint == \E q \in OneArgTemplates, v \in PrintArgs : Start("Print", q, <<v>>)

InitGetType == \E v \in RenderArgs : Start("GetType", RenderTemplate, <<v>>)

Init == InitSubst \/ InitRender \/ InitPrint \/ InitGetType

\* Format: one iteration of "for i, arg := range args"
FormatIter ==
  /\ pc = "loop" /\ fn = "Format" /\ idx < Len(args)
  /\ ~formatPanics(args[idx + 1])
  /\ LET index == idx + 1
         text == format(args[index])
     IN /\ queryb' = ReplaceAll(queryb, index, text)
        /\ rendered' = Append(rendered, text)
        /\ idx' = index
  /\ UNCHANGED <<fn, query, args, stack, types, pc, result>>

\* Format: the iteration whose NewArgument(arg).format() panics
FormatPanic ==
  /\ pc = "loop" /\ fn = "Format" /\ idx < Len(args)
  /\ formatPanics(args[idx + 1])
  /\ pc' = "panic"
  /\ UNCHANGED <<fn, query, args, stack, types, queryb, idx, rendered, result>>

\* Format: return string(queryb)
FormatReturn ==
  /\ pc = "loop" /\ fn = "Format" /\ idx = Len(args)
  /\ result' = queryb
  /\ pc' = "done"
  /\ UNCHANGED <<fn, query, args, stack, types, queryb, idx, rendered>>

PrintIter ==
  /\ pc = "loop" /\ fn = "Print" /\ idx < Len(args)
  /\ ~p_formatPanics(args[idx + 1])
  /\ LET index == idx + 1
         text == p_format(args[index])
     IN /\ queryb' = ReplaceAll(queryb, index, text)
        /\ rendered' = Append(rendered, text)
        /\ idx' = index
  /\ UNCHANGED <<fn, query, args, stack, types, pc, result>>

PrintPanic ==
  /\ pc = "loop" /\ fn = "Print" /\ idx < Len(args)
  /\ p_formatPanics(args[idx + 1])
  /\ pc' = "panic"
  /\ UNCHANGED <<fn, query, args, stack, types, queryb, idx, rendered, result>>

PrintReturn ==
  /\ pc = "loop" /\ fn = "Print" /\ idx = Len(args)
  /\ result' = queryb
  /\ pc' = "done"
  /\ UNCHANGED <<fn, query, args, stack, types, queryb, idx, rendered>>

\* NewArgument(arg).GetType()
CallGetType ==
  /\ pc = "loop" /\ fn = "GetType"
  /\ types' = <<GetType(args[1])>>
  /\ pc' = "typed"
  /\ UNCHANGED <<fn, query, args, queryb, idx, rendered, result, stack>>

Next ==
  \/ CallGetType
  \/ FormatIter
  \/ FormatPanic
  \/ FormatReturn
  \/ PrintIter
  \/ PrintPanic
  \/ PrintReturn

Spec == Init /\ [][Next]_vars

-----------------------------------------------------------------------------
(* Arguments that live in memory and may reach themselves.  The recursion  *)
(* of format over such an argument is run call by call: stack holds one    *)
(* frame per format call that has not returned.                            *)

\* an argument given as its root cell and the cells it can reach
HeapV(cells, root) == [t |-> "heap", cells |-> cells, root |-> root]

\* a cell: an int, a nil, a nil pointer, or a pointer, slice, map or struct
\* whose elements are the cells kids
Cell(kind, kids) == [kind |-> kind, kids |-> kids]

CellsOver(n) ==
  {Cell(k, <<>>) : k \in {"int", "nil", "nilptr"}}
  \cup {Cell("ptr", <<c>>) : c \in 1..n}
  \cup {Cell("slice", ks) : ks \in SeqsUpTo(1..n, MaxKids)}
  \cup {Cell(k, ks) : k \in {"map", "struct"}, ks \in SeqsUpTo(1..n, MaxKids) \ {<<>>}}

\* a struct holds a struct by value, so a struct inside a struct is another,
\* later cell: a cycle has to pass through a pointer, a slice or a map
Constructible(cells) ==
  \A c \in 1..Len(cells) :
    cells[c].kind = "struct" =>
      \A j \in 1..Len(cells[c].kids) :
        cells[cells[c].kids[j]].kind = "struct" => cells[c].kids[j] > c

Heaps ==
  {HeapV(cells, 1) :
     cells \in {x \in UNION {[1..n -> CellsOver(n)] : n \in 1..MaxCells} : Constructible(x)}}

Frame(addr) == [addr |-> addr, next |-> 0, parts |-> <<>>]

\* what the format call of a cell returns once its elements are rendered
cellText(cell, parts) ==
  CASE cell.kind = "int" -> SprintV(IntV("int", 7))
    [] cell.kind \in {"nil", "nilptr"} -> formatNull
    [] cell.kind = "ptr" -> parts[1]
    [] cell.kind = "slice" -> <<Quote, "{">> \o Join(parts, <<",">>) \o <<"}", Quote>>
    [] cell.kind = "map" ->
         <<Quote, "{">>
         \o Join([k \in 1..Len(parts) |-> pairText(KeyText(k), parts[k])], <<",">>)
         \o <<"}", Quote>>
    [] cell.kind = "struct" ->
         <<Quote, "{">>
         \o Join([k \in 1..Len(parts) |-> pairText(<<"F">> \o Itoa(k), parts[k])], <<",">>)
         \o <<"}", Quote>>

InitHeap == \E h \in Heaps : Start("Format", RenderTemplate, <<h>>)

\* Format: NewArgument(arg).format() is called
formatCall ==
  /\ pc = "loop" /\ fn = "Format" /\ idx < Len(args)
  /\ args[idx + 1].t = "heap"
  /\ stack' = <<Frame(args[idx + 1].root)>>
  /\ pc' = "render"
  /\ UNCHANGED <<fn, query, args, queryb, idx, rendered, result, types>>

\* formatPtr, formatSlice, formatMap, formatStruct: format is called on the
\* next element
formatDescend ==
  /\ pc = "render"
  /\ LET top == stack[Len(stack)]
         cell == args[idx + 1].cells[top.addr]
     IN /\ top.next < Len(cell.kids)
        /\ Len(stack) < MaxStack
        /\ stack' = Append(stack, Frame(cell.kids[top.next + 1]))
  /\ UNCHANGED <<fn, query, args, queryb, idx, rendered, pc, result, types>>

\* the same call with the stack at its limit: the run time ends the program
stackOverflow ==
  /\ pc = "render"
  /\ LET top == stack[Len(stack)]
         cell == args[idx + 1].cells[top.addr]
     IN /\ top.next < Len(cell.kids)
        /\ Len(stack) = MaxStack
  /\ pc' = "overflow"
  /\ UNCHANGED <<fn, query, args, queryb, idx, rendered, result, stack, types>>

\* a format call returns: to the renderer that called it, or to Format,
\* which substitutes the text
formatAscend ==
  /\ pc = "render"
  /\ LET top == stack[Len(stack)]
         cell == args[idx + 1].cells[top.addr]
         text == cellText(cell, top.parts)
         rest == SubSeq(stack, 1, Len(stack) - 1)
     IN /\ top.next = Len(cell.kids)
        /\ IF rest = <<>>
           THEN /\ stack' = <<>>
                /\ queryb' = ReplaceAll(queryb, idx + 1, text)
                /\ rendered' = Append(rendered, text)
                /\ idx' = idx + 1
                /\ pc' = "loop"
           ELSE /\ stack' = [rest EXCEPT ![Len(rest)] =
                               [@ EXCEPT !.next = @ + 1, !.parts = Append(@, text)]]
                /\ UNCHANGED <<queryb, rendered, idx, pc>>
  /\ UNCHANGED <<fn, query, args, result, types>>

NextHeap ==
  \/ formatCall
  \/ formatDescend
  \/ stackOverflow
  \/ formatAscend
  \/ FormatReturn

SpecHeap == InitHeap /\ [][NextHeap]_vars

-----------------------------------------------------------------------------
(* The placeholder syntax as the specification words it, used to state the *)
(* claims: a token is "$" and the longest run of digits after it.          *)

\* the last position of the digit run that starts at p (p - 1 when none)
RECURSIVE DigitRunEnd(_, _)
DigitRunEnd(q, p) ==
  IF p <= Len(q) /\ IsDigit(q[p]) THEN DigitRunEnd(q, p + 1) ELSE p - 1

\* a token starts at p
TokenAt(q, p) == q[p] = "$" /\ DigitRunEnd(q, p + 1) > p

TokenDigits(q, p) == SubSeq(q, p + 1, DigitRunEnd(q, p + 1))

\* the token at p is the placeholder of an argument among n
InRange(q, p, n) ==
  /\ TokenAt(q, p)
  /\ TokenDigits(q, p)[1] # "0"
  /\ ParseNum(TokenDigits(q, p), 0) \in 1..n

\* the token at p names a position beyond the n arguments
OverIndexed(q, p, n) == TokenAt(q, p) /\ ParseNum(TokenDigits(q, p), 0) > n

\* every placeholder replaced by the text of its argument, in one pass
RECURSIVE Substitute(_, _, _)
Substitute(q, p, texts) ==
  IF p > Len(q) THEN <<>>
  ELSE IF InRange(q, p, Len(texts))
       THEN texts[ParseNum(TokenDigits(q, p), 0)]
            \o Substitute(q, DigitRunEnd(q, p + 1) + 1, texts)
       ELSE <<q[p]>> \o Substitute(q, p + 1, texts)

\* the template cut at its over-indexed tokens: these are kept as they are
\* and the loop of Format is run on each piece between them
RECURSIVE Piecewise(_, _, _, _)
Piecewise(q, p, cur, texts) ==
  IF p > Len(q) THEN FormatLoop(cur, texts, 1)
  ELSE IF OverIndexed(q, p, Len(texts))
       THEN FormatLoop(cur, texts, 1) \o SubSeq(q, p, DigitRunEnd(q, p + 1))
            \o Piecewise(q, DigitRunEnd(q, p + 1) + 1, <<>>, texts)
       ELSE Piecewise(q, p + 1, Append(cur, q[p]), texts)

\* every placeholder of q is followed by a non-word character or ends q
TokensDelimited(q, n) ==
  \A p \in 1..Len(q) :
    InRange(q, p, n) =>
      LET e == DigitRunEnd(q, p + 1) IN e = Len(q) \/ ~IsWord(q[e + 1])

\* a under all its non-nil pointers
RECURSIVE Strip(_)
Strip(a) == IF isPtr(a) THEN Strip(a.elem) ELSE a

\* the arguments Format has rendered so far
Rendered == IF fn = "Format" THEN 1..Len(rendered) ELSE {}

-----------------------------------------------------------------------------
(* The claims.                                                             *)

\* C1 (as claimed): Format's result is the template with every placeholder
\* $k, k <= n, replaced by the rendered text of argument k verbatim and
\* nothing else changed.  Stated on the templates whose placeholders are
\* each followed by a non-word character or the end, where the pattern of
\* the code finds every placeholder.
ClaimC1 ==
  (pc = "done" /\ fn = "Format" /\ TokensDelimited(query, Len(args)))
    => result = Substitute(query, 1, rendered)

\* C2 (as claimed): a placeholder $k followed by any non-digit character is
\* replaced by the text of argument k.  Stated for one argument whose text
\* holds no "$", where nothing but the token boundary is in play.
ClaimC2 ==
  (pc = "done" /\ fn = "Format" /\ Len(args) = 1
     /\ \A k \in 1..Len(rendered[1]) : rendered[1][k] # "$")
    => result = Substitute(query, 1, rendered)

\* C3: every token $j with j > n is in Format's result as it was in the
\* template: the result is the over-indexed tokens, untouched and in place,
\* between the results of Format on the pieces of template that separate
\* them; and Format does not fail unless the rendering of an argument does.
ThmC3 ==
  /\ (pc = "done" /\ fn = "Format") => result = Piecewise(query, 1, <<>>, rendered)
  /\ (pc = "panic" /\ fn = "Format") => \E k \in 1..Len(args) : formatPanics(args[k])

WitC3 ==
  /\ pc = "done" /\ fn = "Format" /\ Len(args) = 1
  /\ query = <<"$", "1", "2">>
  /\ rendered = <<<<"2">>>>
  /\ result = <<"$", "1", "2">>

\* C4: Format renders a non-nil pointer, at any depth of pointers, as it
\* renders the value under the pointers, and fails on it only when it
\* fails on that value.
ThmC4 ==
  \A k \in 1..Len(args) :
    (fn = "Format" /\ isPtr(args[k])) =>
      /\ k <= Len(rendered) =>
            /\ rendered[k] = format(Strip(args[k]))
            /\ ~formatPanics(Strip(args[k]))
      /\ (pc = "panic" /\ k = idx + 1) => formatPanics(Strip(args[k]))

WitC4 ==
  /\ pc = "done" /\ fn = "Format"
  /\ args = <<PtrV(PtrV(IntV("int", 42)))>>
  /\ rendered = <<<<"4", "2">>>>

\* C5 (as claimed): nil, a nil pointer, and a nil reached under non-nil
\* pointers are rendered NULL by Format and by the renderer behind Print.
ClaimC5 ==
  \A k \in 1..Len(rendered) : IsNil(Strip(args[k])) => rendered[k] = NULL

\* C6 (as claimed): every value of kind string, of a user-defined string
\* type too, is rendered as its characters between single quotes with each
\* single quote doubled.
ClaimC6 ==
  \A k \in Rendered :
    isString(args[k]) =>
      rendered[k] = <<Quote>> \o ReplaceChar(args[k].s, Quote, <<Quote, Quote>>) \o <<Quote>>

\* the elements' own renderings, each after a comma but the first
RECURSIVE CommaList(_, _)
CommaList(elems, k) ==
  IF k > Len(elems) THEN <<>>
  ELSE (IF k = 1 THEN <<>> ELSE <<",">>) \o format(elems[k]) \o CommaList(elems, k + 1)

\* C7: a slice that is neither a byte slice nor a pq array renders as '{,
\* its elements' own renderings in order separated by commas, }'; the empty
\* slice renders as '{}'.
ThmC7 ==
  \A k \in Rendered :
    isSlice(args[k]) =>
      /\ rendered[k] = <<Quote, "{">> \o CommaList(args[k].elems, 1) \o <<"}", Quote>>
      /\ args[k].elems = <<>> => rendered[k] = <<Quote, "{", "}", Quote>>

WitC7 ==
  /\ pc = "done" /\ fn = "Format"
  /\ args = <<SliceV("any", <<NilV, PtrV(IntV("int", 7))>>)>>
  /\ rendered = <<<<Quote, "{", "N", "U", "L", "L", ",", "7", "}", Quote>>>>

\* C8: a nullable wrapper renders as NULL when its validity flag is false
\* and as its inner value renders as an argument of its own when it is true.
ThmC8 ==
  \A k \in Rendered :
    isSqlNullType(args[k]) =>
      rendered[k] = IF args[k].valid THEN format(args[k].inner) ELSE NULL

WitC8 ==
  /\ pc = "done" /\ fn = "Format"
  /\ args = <<NullV("sql.NullString", TRUE, StrV(<<"a", Quote>>))>>
  /\ rendered = <<<<Quote, "a", Quote, Quote, Quote>>>>

\* the name part of a json tag
TagName(f) == Split(f.tag, ",")[1]

\* the fields C9 gives a pair: exported and not tagged json:"-"
Paired(f) == f.exported /\ ~(f.hasTag /\ f.tag = <<"-">>)

\* the key C9 gives a field: the tag's name when it has one
PairKey(f) == IF f.hasTag /\ TagName(f) # <<>> THEN TagName(f) ELSE f.name

\* C9 (as claimed): a struct renders one pair per exported field not tagged
\* json:"-", in declaration order, keyed by the tag name or the field name.
ClaimC9 ==
  \A k \in Rendered :
    (isStruct(args[k]) /\ ~isGenericArray(args[k])) =>
      LET shown == SelectSeq(args[k].fields, Paired)
      IN rendered[k] =
           <<Quote, "{">>
           \o Join([j \in 1..Len(shown) |->
                      pairText(PairKey(shown[j]), format(shown[j].val))], <<",">>)
           \o <<"}", Quote>>

\* C10 (as claimed): Format never panics.
ClaimC10 == fn = "Format" => pc # "panic"

\* C11 (as claimed): rendering always ends, and a value that reaches itself
\* is cut off: format is never called on a value whose own format call has
\* not returned, and the nesting of calls never runs into the stack limit.
ClaimC11 ==
  /\ \A i, j \in 1..Len(stack) : i < j => stack[i].addr # stack[j].addr
  /\ pc # "overflow"

\* the renderer format calls for a value of category ty
formatAs(ty, a) ==
  CASE ty = Null -> formatNull
    [] ty = Pointer -> formatPtr(a)
    [] ty = Time -> formatTime(a)
    [] ty = String -> formatString(a)
    [] ty = Bytes -> formatBytes(a)
    [] ty = Slice -> formatSlice(a)
    [] ty = PqArray -> formatPqArray(a)
    [] ty = GenericArray -> formatGenericArray(a)
    [] ty = SqlNullType -> formatSqlNullType(a)
    [] ty = Boolean -> formatBoolean(a)
    [] ty = Map -> formatMap(a)
    [] ty = Struct -> formatStruct(a)
    [] ty = Float -> formatFloat(a)
    [] ty = Integer -> SprintV(a)

\* C12: GetType returns one category of ParameterType for every value, the
\* category is the one whose branch format takes for the same value, and
\* the text Format rendered for an argument is the text of the renderer of
\* the category GetType returns for it.
ThmC12 ==
  /\ (fn = "GetType" /\ pc = "typed") =>
        /\ Len(types) = 1
        /\ types[1] \in ParameterType
        /\ types[1] = formatBranch(args[1])
  /\ fn = "Format" =>
        \A k \in 1..Len(rendered) :
          /\ args[k].t # "heap"
          /\ GetType(args[k]) = formatBranch(args[k])
          /\ rendered[k] = formatAs(GetType(args[k]), args[k])

\* GetType has classified a pq.GenericArray, which is also of struct kind
WitC12 ==
  /\ fn = "GetType" /\ pc = "typed"
  /\ isGenericArray(args[1]) /\ Kind(args[1]) = "struct"
  /\ types = <<GenericArray>>

====
